---- MODULE Spec2Model ----
(***************************************************************************)
(* Delivery status application (src/app_env/app.py).                       *)
(*                                                                         *)
(* The model covers the two store reads (get_order_info,                   *)
(* get_shipment_stops), the stop classifier (get_stop_status), the         *)
(* progress computation and the control flow of main().  A run of main()   *)
(* is a sequence of steps, one per access to what it shares with the rest  *)
(* of the world: the read of the order, the read of the stops, and per     *)
(* stop one reading of the system clock and, after it, the display of the  *)
(* stop's expander.  Each browser session runs the script on its own, so  *)
(* runs of different sessions overlap, and the store may be written        *)
(* between the steps of a run.  Time is counted in whole hours; a datetime *)
(* is a wall-clock reading with a tzinfo that is either "None" (naive) or  *)
(* the name of a fixed UTC offset.                                         *)
(*                                                                         *)
(* The status labels and markers of the source are written in ASCII, by    *)
(* the line of get_stop_status that returns them:                          *)
(*   line 107 -> "Completed" / "green"    line 109 -> "Arrived" / "yellow" *)
(*   line 120 -> "Delayed" / "red"        line 122 -> "Scheduled" / "white"*)
(*   line 124 -> "Unknown" / "black"                                       *)
(***************************************************************************)
EXTENDS Integers, Sequences, FiniteSets, TLC

VARIABLES
    db_orders,   \* order id -> its row of hiroshi.mcp.orders, or None
    db_stops,    \* order id -> rows of hiroshi.mcp.shipment_stops, by stop_sequence
    clock,       \* the system clock, in UTC hours
    sess,        \* session -> position and locals of its run of main(), and its page
    hist,        \* session -> the binding labels shown for the stop followed by the
                 \*            runs that had ended when its current run started
    seen,        \* the binding labels any session showed for that stop before `last`
    last         \* the label shown last for that stop, by any session

vars == <<db_orders, db_stops, clock, sess, hist, seen, last>>

\* Bounds of the model.
MaxTime == 3     \* the clock runs over 0..MaxTime
MaxStops == 2    \* an order has at most MaxStops stops

-----------------------------------------------------------------------------
\* Python values

None == [type |-> "NoneType"]

datetime(wall, tzinfo) == [type |-> "datetime", wall |-> wall, tzinfo |-> tzinfo]

\* Truth value of a timestamp column: None is false, every datetime is true.
truthy(v) == v # None

\* Fixed-offset time zones, by name, and their offset from UTC in hours.
TzNames == {"UTC", "+01:00", "-01:00"}

utcoffset(tz) ==
    CASE tz = "UTC" -> 0
      [] tz = "+01:00" -> 1
      [] tz = "-01:00" -> -1

\* The instant of an aware datetime, in UTC hours.
instant(dt) == dt.wall - utcoffset(dt.tzinfo)

\* Mutant of datetime_gt: the comparison also holds at equality.
datetime_ge(a, b) ==
    IF (a.tzinfo = "None") # (b.tzinfo = "None") THEN "TypeError"
    ELSE IF a.tzinfo = "None"
         THEN (IF a.wall >= b.wall THEN "True" ELSE "False")
         ELSE (IF a.wall - utcoffset(a.tzinfo) >= b.wall - utcoffset(b.tzinfo)
               THEN "True" ELSE "False")

\* Mutant of datetime_gt: the operands are exchanged.
datetime_lt(a, b) ==
    IF (a.tzinfo = "None") # (b.tzinfo = "None") THEN "TypeError"
    ELSE IF a.tzinfo = "None"
         THEN (IF a.wall < b.wall THEN "True" ELSE "False")
         ELSE (IF a.wall - utcoffset(a.tzinfo) < b.wall - utcoffset(b.tzinfo)
               THEN "True" ELSE "False")

\* datetime.__gt__: two aware values compare as instants, two naive values by
\* their wall clocks, and a naive against an aware value raises TypeError.
datetime_gt(a, b) ==
    IF (a.tzinfo = "None") # (b.tzinfo = "None") THEN "TypeError"
    ELSE IF a.tzinfo = "None"
         THEN (IF a.wall > b.wall THEN "True" ELSE "False")
         ELSE (IF instant(a) > instant(b) THEN "True" ELSE "False")

\* datetime.replace(tzinfo=...): same wall clock, new tzinfo.
replace_tzinfo(dt, tz) == [dt EXCEPT !.tzinfo = tz]

\* datetime.now(timezone.utc) when the system clock reads utcnow.
now_utc(utcnow) == datetime(utcnow, "UTC")

RECURSIVE gcd(_, _)
gcd(a, b) == IF b = 0 THEN a ELSE gcd(b, a % b)

\* a / b on ints: a float, kept as the exact fraction in lowest terms.
truediv(a, b) ==
    IF b = 0 THEN [type |-> "ZeroDivisionError"]
    ELSE [type |-> "float", num |-> a \div gcd(a, b), den |-> b \div gcd(a, b)]

\* The literal 0 of the else branch: an int, written with the fields of a float
\* so that the two compare.
zero == [type |-> "int", num |-> 0, den |-> 1]

-----------------------------------------------------------------------------
\* DatabricksConnector

OrderIds == {"A"}

Decimal(value) == [type |-> "Decimal", value |-> value]

\* A row of the orders table as the dict get_order_info returns; order_value
\* is a number or NULL.  The other columns are displayed as they are.
Order(order_id, order_value) ==
    [type |-> "dict", order_id |-> order_id, order_value |-> order_value]

get_order_info(order_id) ==
    IF order_id \in DOMAIN db_orders THEN db_orders[order_id] ELSE None

get_shipment_stops(order_id) ==
    IF order_id \in DOMAIN db_stops THEN db_stops[order_id] ELSE <<>>

-----------------------------------------------------------------------------
\* get_stop_status

StatusResult(status, emoji, current_time, planned_time) ==
    [status |-> status, emoji |-> emoji,
     current_time |-> current_time, planned_time |-> planned_time]

\* Mutant of normalize_planned: the tzinfo check is left out.
planned_as_stored(planned_time) == planned_time

\* planned_time after the tzinfo check: a naive value is taken as UTC.
normalize_planned(planned_time) ==
    IF planned_time.tzinfo = "None"
    THEN replace_tzinfo(planned_time, "UTC")
    ELSE planned_time

\* Mutant of get_stop_status: the plan is looked at before the actual arrival.
get_stop_status_plan_first(stop, utcnow) ==
    IF truthy(stop.actual_arrival_at) /\ truthy(stop.actual_depart_at)
    THEN StatusResult("Completed", "green", None, None)
    ELSE IF truthy(stop.planned_arrival_at)
    THEN LET current_time == now_utc(utcnow)
             planned_time == normalize_planned(stop.planned_arrival_at)
             later == datetime_gt(current_time, planned_time)
         IN  IF later = "TypeError"
             THEN StatusResult("TypeError", "none", current_time, planned_time)
             ELSE IF later = "True"
             THEN StatusResult("Delayed", "red", current_time, planned_time)
             ELSE StatusResult("Scheduled", "white", current_time, planned_time)
    ELSE IF truthy(stop.actual_arrival_at)
    THEN StatusResult("Arrived", "yellow", None, None)
    ELSE StatusResult("Unknown", "black", None, None)

\* Mutant of get_stop_status: a stop without a plan counts as on schedule.
get_stop_status_no_plan_scheduled(stop, utcnow) ==
    IF truthy(stop.actual_arrival_at) /\ truthy(stop.actual_depart_at)
    THEN StatusResult("Completed", "green", None, None)
    ELSE IF truthy(stop.actual_arrival_at)
    THEN StatusResult("Arrived", "yellow", None, None)
    ELSE IF truthy(stop.planned_arrival_at)
    THEN LET current_time == now_utc(utcnow)
             planned_time == normalize_planned(stop.planned_arrival_at)
             later == datetime_gt(current_time, planned_time)
         IN  IF later = "TypeError"
             THEN StatusResult("TypeError", "none", current_time, planned_time)
             ELSE IF later = "True"
             THEN StatusResult("Delayed", "red", current_time, planned_time)
             ELSE StatusResult("Scheduled", "white", current_time, planned_time)
    ELSE StatusResult("Scheduled", "white", None, None)

\* Mutant of get_stop_status: the first test is "or" instead of "and".
get_stop_status_either_actual(stop, utcnow) ==
    IF truthy(stop.actual_arrival_at) \/ truthy(stop.actual_depart_at)
    THEN StatusResult("Completed", "green", None, None)
    ELSE IF truthy(stop.actual_arrival_at)
    THEN StatusResult("Arrived", "yellow", None, None)
    ELSE IF truthy(stop.planned_arrival_at)
    THEN LET current_time == now_utc(utcnow)
             planned_time == normalize_planned(stop.planned_arrival_at)
             later == datetime_gt(current_time, planned_time)
         IN  IF later = "TypeError"
             THEN StatusResult("TypeError", "none", current_time, planned_time)
             ELSE IF later = "True"
             THEN StatusResult("Delayed", "red", current_time, planned_time)
             ELSE StatusResult("Scheduled", "white", current_time, planned_time)
    ELSE StatusResult("Unknown", "black", None, None)

\* utcnow is the reading of the system clock taken inside the function; the
\* record returned carries the two operands of the comparison when it is made.
get_stop_status(stop, utcnow) ==
    IF truthy(stop.actual_arrival_at) /\ truthy(stop.actual_depart_at)
    THEN StatusResult("Completed", "green", None, None)
    ELSE IF truthy(stop.actual_arrival_at)
    THEN StatusResult("Arrived", "yellow", None, None)
    ELSE IF truthy(stop.planned_arrival_at)
    THEN LET current_time == now_utc(utcnow)
             planned_time == normalize_planned(stop.planned_arrival_at)
             later == datetime_gt(current_time, planned_time)
         IN  IF later = "TypeError"
             THEN StatusResult("TypeError", "none", current_time, planned_time)
             ELSE IF later = "True"
             THEN StatusResult("Delayed", "red", current_time, planned_time)
             ELSE StatusResult("Scheduled", "white", current_time, planned_time)
    ELSE StatusResult("Unknown", "black", None, None)

-----------------------------------------------------------------------------
\* main

\* Mutant of order_found: the stops are read whether or not the order was found.
order_any(order_info) == TRUE

\* Line 155, `if order_info:`.
order_found(order_info) == truthy(order_info)

\* Lines 160-177, the display of the order: subscripting None and formatting a
\* NULL order_value with ":,.0f" (line 170) raise TypeError.
order_display(order_info) ==
    IF order_info = None THEN "TypeError: subscript"
    ELSE IF order_info.order_value = None THEN "TypeError: format"
    ELSE "ok"

\* Mutant of completed_stops: a stop counts as soon as it has arrived.
arrived_stops(shipment_stops) ==
    Cardinality({i \in 1..Len(shipment_stops) :
                    truthy(shipment_stops[i].actual_arrival_at)})

completed_stops(shipment_stops) ==
    Cardinality({i \in 1..Len(shipment_stops) :
                    truthy(shipment_stops[i].actual_arrival_at)
                    /\ truthy(shipment_stops[i].actual_depart_at)})

total_stops(shipment_stops) == Len(shipment_stops)

progress(shipment_stops) ==
    IF total_stops(shipment_stops) > 0
    THEN truediv(completed_stops(shipment_stops), total_stops(shipment_stops))
    ELSE zero

\* The progress bar and its caption.
progress_bar(shipment_stops) ==
    [type |-> "progress",
     completed_stops |-> completed_stops(shipment_stops),
     total_stops |-> total_stops(shipment_stops),
     progress |-> progress(shipment_stops)]

\* The expander of a stop: the stop, what get_stop_status returned for it, and
\* the reading of the system clock that call took.
expander(stop, utcnow) ==
    LET r == get_stop_status(stop, utcnow)
    IN  [stop |-> stop, now |-> utcnow,
         status |-> r.status, emoji |-> r.emoji,
         current_time |-> r.current_time, planned_time |-> r.planned_time]

Call(fn, order_id, returned) == [fn |-> fn, order_id |-> order_id, returned |-> returned]

\* What a session shows: kind is "running" while the run goes on, and at its
\* end "idle", "no_order_id", "not_found", "no_stops", "report" or "fault".
Page(kind, order_id, calls, bar, statuses, raised) ==
    [kind |-> kind, order_id |-> order_id, calls |-> calls,
     progress |-> bar, statuses |-> statuses, raised |-> raised]

\* The position of a run and its locals; status holds what line 193 returned
\* until line 195 displays it.
Session(pc, order_info, shipment_stops, page) ==
    [pc |-> pc, order_info |-> order_info, shipment_stops |-> shipment_stops,
     status |-> None, page |-> page]

\* What the sidebar may hold when the script starts: the button and the id.
Inputs == {<<FALSE, "">>, <<TRUE, "">>, <<TRUE, "A">>, <<TRUE, "B">>}

\* The first stop of order A is the one followed over time: the label a page
\* shows for it, "none" while it shows none.
Shown(page) ==
    IF page.order_id = "A" /\ page.statuses # <<>>
    THEN page.statuses[1].status
    ELSE "none"

\* Lines 127-155: the script starts with the inputs of the sidebar and, when a
\* search is asked for, reads the order.
search(search_button, order_id) ==
    IF search_button /\ order_id # ""
    THEN LET order_info == get_order_info(order_id)
             calls == << Call("get_order_info", order_id,
                              IF truthy(order_info) THEN "dict" ELSE "None") >>
         IN  IF order_found(order_info)
             THEN Session("order_read", order_info, <<>>,
                          Page("running", order_id, calls, None, <<>>, "None"))
             ELSE Session("done", order_info, <<>>,
                          Page("not_found", order_id, calls, None, <<>>, "None"))
    ELSE IF search_button /\ order_id = ""
    THEN Session("done", None, <<>>, Page("no_order_id", order_id, <<>>, None, <<>>, "None"))
    ELSE Session("done", None, <<>>, Page("idle", order_id, <<>>, None, <<>>, "None"))

\* A session runs the script again once its last run has ended.
SearchStep(s, inputs) ==
    /\ sess[s].pc = "done"
    /\ \E in \in inputs : sess' = [sess EXCEPT ![s] = search(in[1], in[2])]
    /\ UNCHANGED <<db_orders, db_stops, clock>>

Search(s) == SearchStep(s, Inputs) /\ UNCHANGED <<hist, seen, last>>

\* Lines 157-189 and 213-214: the stops are read, the order is displayed and,
\* when there are stops, the progress bar.
read_stops(ses) ==
    LET order_id == ses.page.order_id
        shipment_stops == get_shipment_stops(order_id)
        calls == Append(ses.page.calls, Call("get_shipment_stops", order_id, "list"))
        shown == order_display(ses.order_info)
        bar == progress_bar(shipment_stops)
    IN  IF shown # "ok"
        THEN Session("done", ses.order_info, shipment_stops,
                     Page("fault", order_id, calls, None, <<>>, shown))
        ELSE IF shipment_stops = <<>>
        THEN Session("done", ses.order_info, shipment_stops,
                     Page("no_stops", order_id, calls, None, <<>>, "None"))
        ELSE IF bar.progress.type = "ZeroDivisionError"
        THEN Session("done", ses.order_info, shipment_stops,
                     Page("fault", order_id, calls, None, <<>>, "ZeroDivisionError"))
        ELSE Session("loop", ses.order_info, shipment_stops,
                     Page("running", order_id, calls, bar, <<>>, "None"))

ReadStops(s) ==
    /\ sess[s].pc = "order_read"
    /\ sess' = [sess EXCEPT ![s] = read_stops(sess[s])]
    /\ UNCHANGED <<db_orders, db_stops, clock, hist, seen, last>>

\* Lines 192-193: the call of get_stop_status for the next stop, which reads
\* the clock; a TypeError of the comparison ends the run.
classify(ses, utcnow) ==
    LET i == Len(ses.page.statuses) + 1
        e == expander(ses.shipment_stops[i], utcnow)
        p == ses.page
    IN  IF e.status = "TypeError"
        THEN Session("done", ses.order_info, ses.shipment_stops,
                     Page("fault", p.order_id, p.calls, p.progress, p.statuses,
                          "TypeError: compare"))
        ELSE [ses EXCEPT !.pc = "show", !.status = e]

ClassifyStep(s) ==
    /\ sess[s].pc = "loop"
    /\ sess' = [sess EXCEPT ![s] = classify(sess[s], clock)]
    /\ UNCHANGED <<db_orders, db_stops, clock>>

Classify(s) == ClassifyStep(s) /\ UNCHANGED <<hist, seen, last>>

\* Lines 195-212: the expander of the stop is displayed; after the last stop
\* the script ends.
display(ses) ==
    LET statuses == Append(ses.page.statuses, ses.status)
        p == ses.page
    IN  IF Len(statuses) = Len(ses.shipment_stops)
        THEN Session("done", ses.order_info, ses.shipment_stops,
                     Page("report", p.order_id, p.calls, p.progress, statuses, "None"))
        ELSE Session("loop", ses.order_info, ses.shipment_stops,
                     Page("running", p.order_id, p.calls, p.progress, statuses, "None"))

DisplayStep(s) ==
    /\ sess[s].pc = "show"
    /\ sess' = [sess EXCEPT ![s] = display(sess[s])]
    /\ UNCHANGED <<db_orders, db_stops, clock>>

Display(s) == DisplayStep(s) /\ UNCHANGED <<hist, seen, last>>

Tick ==
    /\ clock < MaxTime
    /\ clock' = clock + 1
    /\ UNCHANGED <<db_orders, db_stops, sess, hist, seen, last>>

-----------------------------------------------------------------------------
\* The store's contents

Stop(planned_arrival_at, actual_arrival_at, planned_depart_at, actual_depart_at) ==
    [planned_arrival_at |-> planned_arrival_at,
     actual_arrival_at |-> actual_arrival_at,
     planned_depart_at |-> planned_depart_at,
     actual_depart_at |-> actual_depart_at]

Stops(planned, actual, depart_plan) ==
    {Stop(pa, aa, pd, ad) : pa \in planned, aa \in actual, pd \in depart_plan,
                            ad \in actual}

SeqsUpTo(S, n) == UNION {[1..k -> S] : k \in 0..n}

\* Every timestamp of the model: naive or aware, at any hour of the clock.
Timestamps == {datetime(w, tz) : w \in 0..MaxTime, tz \in TzNames \cup {"None"}}

Idle == Session("done", None, <<>>, Page("idle", "", <<>>, None, <<>>, "None"))

Table(rows) == [o \in OrderIds |-> rows]

\* The browser sessions.
Sessions == {"X", "Y"}

Start(S) ==
    /\ clock = 0
    /\ sess = [s \in S |-> Idle]
    /\ hist = [s \in S |-> {}]
    /\ seen = {}
    /\ last = "none"

\* An order with up to MaxStops stops, or stops without an order; any
\* combination of present and absent timestamps, also a departure without an
\* arrival, and an order_value that may be NULL; one session.
Init ==
    /\ \E row \in {None, Order("A", Decimal(100)), Order("A", None)} :
           db_orders = [o \in OrderIds |-> row]
    /\ \E rows \in SeqsUpTo(Stops({None, datetime(1, "None"), datetime(2, "+01:00")},
                                    {None, datetime(1, "UTC")}, {None}), MaxStops) :
           db_stops = Table(rows)
    /\ Start({"X"})

Next == \/ \E s \in DOMAIN sess :
             Search(s) \/ ReadStops(s) \/ Classify(s) \/ Display(s)
        \/ Tick

Spec == Init /\ [][Next]_vars

\* One order with one stop, whose timestamps range over every value, looked
\* at by two sessions.
InitClassify ==
    /\ db_orders = [o \in OrderIds |-> Order(o, Decimal(100))]
    /\ \E s \in Stops({None} \cup Timestamps,
                       {None, datetime(1, "UTC")},
                       {None, datetime(2, "UTC")}) :
           db_stops = Table(<<s>>)
    /\ Start(Sessions)

SpecClassify == InitClassify /\ [][Next]_vars

-----------------------------------------------------------------------------
\* One stop followed over time.  The store only ever adds to the stop: a plan
\* where none was set, an actual arrival, and after it an actual departure.

TrackedStop == db_stops["A"][1]

\* The planned arrivals of the stop followed: a naive and an aware one.
TrackPlans == {datetime(1, "None"), datetime(1, "-01:00")}

\* The runs followed are searches for order A.
TrackInputs == {<<TRUE, "A">>}

\* The labels that bind what may be shown later; Unknown and Scheduled may be
\* followed by any label.
Binding == {"Delayed", "Arrived", "Completed"}

\* The binding labels displayed so far, by any session.  The order has one
\* stop, so a run ends when it displays the label.
Ended == seen \cup ({last} \cap Binding)

\* A run that starts records the labels of the runs that have ended.
TrackSearch(s) ==
    /\ SearchStep(s, TrackInputs)
    /\ hist' = [hist EXCEPT ![s] = Ended]
    /\ UNCHANGED <<seen, last>>

\* The labels are recorded in the order in which they are displayed.

TrackDisplay(s) ==
    /\ DisplayStep(s)
    /\ IF Len(sess[s].page.statuses) = 0
       THEN seen' = seen \cup ({last} \cap Binding) /\ last' = Shown(sess'[s].page)
       ELSE UNCHANGED <<seen, last>>
    /\ UNCHANGED hist

SetPlanned ==
    /\ TrackedStop.planned_arrival_at = None
    /\ \E t \in TrackPlans :
           db_stops' = [db_stops EXCEPT !["A"][1].planned_arrival_at = t]
    /\ UNCHANGED <<db_orders, clock, sess, hist, seen, last>>

Arrive ==
    /\ TrackedStop.actual_arrival_at = None
    /\ db_stops' = [db_stops EXCEPT !["A"][1].actual_arrival_at = now_utc(clock)]
    /\ UNCHANGED <<db_orders, clock, sess, hist, seen, last>>

Depart ==
    /\ TrackedStop.actual_arrival_at # None
    /\ TrackedStop.actual_depart_at = None
    /\ db_stops' = [db_stops EXCEPT !["A"][1].actual_depart_at = now_utc(clock)]
    /\ UNCHANGED <<db_orders, clock, sess, hist, seen, last>>

InitTrack ==
    /\ db_orders = [o \in OrderIds |-> Order(o, Decimal(100))]
    /\ \E t \in {None} \cup TrackPlans :
           db_stops = Table(<<Stop(t, None, None, None)>>)
    /\ Start(Sessions)

NextTrack ==
    \/ \E s \in DOMAIN sess :
          TrackSearch(s) \/ ReadStops(s) \/ Classify(s) \/ TrackDisplay(s)
    \/ Tick \/ SetPlanned \/ Arrive \/ Depart

SpecTrack == InitTrack /\ [][NextTrack]_vars

-----------------------------------------------------------------------------
\* Properties

Labels == {"Completed", "Arrived", "Delayed", "Scheduled", "Unknown"}

BothActuals(stop) == stop.actual_arrival_at # None /\ stop.actual_depart_at # None

DepartOnly(stop) == stop.actual_arrival_at = None /\ stop.actual_depart_at # None

\* The instant a planned timestamp stands for, a naive one read as UTC.
PlannedInstant(t) ==
    IF t.tzinfo = "None" THEN t.wall
    ELSE IF t.tzinfo = "UTC" THEN t.wall
    ELSE IF t.tzinfo = "+01:00" THEN t.wall - 1
    ELSE t.wall + 1

\* The expanders shown by all sessions.
AllEntries ==
    UNION {{sess[s].page.statuses[i] : i \in 1..Len(sess[s].page.statuses)} :
           s \in DOMAIN sess}

\* C1: on every page, a stop is labelled Completed exactly when it has both
\* actual timestamps, and on a finished report the stops labelled Completed
\* are as many as the progress bar counts.
C1_CompletedIffCounted ==
    \A s \in DOMAIN sess :
        LET p == sess[s].page
        IN  /\ \A i \in 1..Len(p.statuses) :
                  (p.statuses[i].status = "Completed") <=> BothActuals(p.statuses[i].stop)
            /\ p.kind = "report" =>
                  p.progress.completed_stops
                     = Cardinality({i \in 1..Len(p.statuses) :
                                       p.statuses[i].status = "Completed"})

C1_Witness ==
    \E s \in DOMAIN sess :
        /\ sess[s].page.kind = "report"
        /\ Len(sess[s].page.statuses) = 2
        /\ sess[s].page.statuses[1].status = "Completed"
        /\ sess[s].page.statuses[2].status = "Arrived"
        /\ sess[s].page.progress.completed_stops = 1

\* C2: a stop with no actual arrival and a planned arrival T is labelled Delayed
\* when the clock reading is strictly after T, and Scheduled otherwise, also
\* when the reading equals T.
C2_DelayedIffStrictlyAfter ==
    \A e \in AllEntries :
        (e.stop.actual_arrival_at = None /\ e.stop.planned_arrival_at # None)
        => e.status = IF e.now > PlannedInstant(e.stop.planned_arrival_at)
                      THEN "Delayed" ELSE "Scheduled"

C2_Witness ==
    \E e \in AllEntries :
        /\ e.stop.actual_arrival_at = None
        /\ e.stop.planned_arrival_at = datetime(3, "+01:00")
        /\ e.now = 2
        /\ e.status = "Scheduled"

\* C3: a stop with an actual arrival and no actual departure is labelled
\* Arrived, whatever its planned timestamps and the clock reading.
C3_ArrivedWhenOnlyArrival ==
    \A e \in AllEntries :
        (e.stop.actual_arrival_at # None /\ e.stop.actual_depart_at = None)
        => e.status = "Arrived"

C3_Witness ==
    \E e \in AllEntries :
        /\ e.stop.actual_arrival_at # None
        /\ e.stop.actual_depart_at = None
        /\ e.stop.planned_arrival_at = datetime(1, "None")
        /\ e.stop.planned_depart_at # None
        /\ e.now = 3
        /\ e.status = "Arrived"

\* C4: a stop with no actual arrival and no planned arrival is labelled Unknown
\* at every clock reading, and every label is one of the five.
C4_UnknownAndFiveLabels ==
    \A e \in AllEntries :
        /\ e.status \in Labels
        /\ (e.stop.actual_arrival_at = None /\ e.stop.planned_arrival_at = None)
           => e.status = "Unknown"

C4_Witness ==
    \E e \in AllEntries :
        /\ e.stop.actual_arrival_at = None
        /\ e.stop.planned_arrival_at = None
        /\ e.stop.actual_depart_at # None
        /\ e.now = 2
        /\ e.status = "Unknown"

StopsFetched(page) ==
    \E i \in 1..Len(page.calls) : page.calls[i].fn = "get_shipment_stops"

\* C5: for every stop sequence of length N in which K stops have both actual
\* timestamps, the progress computed for it has totalCount = N, completedCount
\* = K with 0 <= K <= N, and ratio = K/N when N > 0, and for the empty sequence
\* it is (0, 0, 0), with no division fault: every run that fetched the stops of
\* an order and displayed the order carries these values.
C5_ProgressOfEverySequence ==
    \A s \in DOMAIN sess :
        LET p == sess[s].page
            N == Len(sess[s].shipment_stops)
            K == Cardinality({i \in 1..N : BothActuals(sess[s].shipment_stops[i])})
        IN  /\ p.raised # "ZeroDivisionError"
            /\ (StopsFetched(p) /\ p.raised = "None") =>
                  /\ p.progress # None
                  /\ p.progress.total_stops = N
                  /\ p.progress.completed_stops = K
                  /\ 0 <= K /\ K <= N
                  /\ N > 0 => p.progress.progress.num * N = K * p.progress.progress.den
                  /\ N = 0 => p.progress.progress.num = 0

\* C6: when get_order_info returns None the run ends with the not-found
\* message: nothing is classified, no progress is computed, nothing faults and
\* get_shipment_stops is not called; get_shipment_stops is only called after
\* get_order_info returned an order for the same identifier.
C6_NoReportWithoutOrder ==
    \A s \in DOMAIN sess :
        LET p == sess[s].page
        IN  /\ (p.calls # <<>> /\ get_order_info(p.order_id) = None) =>
                  /\ sess[s].pc = "done"
                  /\ p.kind = "not_found"
                  /\ p.raised = "None"
                  /\ p.progress = None
                  /\ p.statuses = <<>>
                  /\ ~StopsFetched(p)
            /\ \A i \in 1..Len(p.calls) :
                  p.calls[i].fn = "get_shipment_stops" =>
                      \E j \in 1..(i - 1) :
                          /\ p.calls[j].fn = "get_order_info"
                          /\ p.calls[j].order_id = p.calls[i].order_id
                          /\ p.calls[j].returned = "dict"
                          /\ get_order_info(p.calls[j].order_id) # None

C6_Witness ==
    \E s \in DOMAIN sess :
        /\ sess[s].page.kind = "not_found"
        /\ sess[s].page.order_id = "A"
        /\ Len(db_stops["A"]) = 2
        /\ sess[s].page.calls = << Call("get_order_info", "A", "None") >>

Consistent(stop) == ~DepartOnly(stop)

\* C7: a stop with an actual departure and no actual arrival is classified
\* without a fault, gets the label the same stop gets without the departure
\* (Delayed, Scheduled or Unknown), and does not add to the completed count.
C7_DepartOnlyFallsThrough ==
    \A s \in DOMAIN sess :
        LET p == sess[s].page
        IN  /\ p.raised \notin {"TypeError: compare", "ZeroDivisionError"}
            /\ \A i \in 1..Len(p.statuses) :
                  LET e == p.statuses[i]
                  IN  DepartOnly(e.stop) =>
                        /\ e.status \in {"Delayed", "Scheduled", "Unknown"}
                        /\ e.status = get_stop_status(
                                         [e.stop EXCEPT !.actual_depart_at = None],
                                         e.now).status
            /\ p.progress # None =>
                  p.progress.completed_stops
                     = completed_stops(SelectSeq(sess[s].shipment_stops, Consistent))

C7_Witness ==
    \E s \in DOMAIN sess :
        /\ sess[s].page.kind = "report"
        /\ Len(sess[s].page.statuses) = 2
        /\ DepartOnly(sess[s].page.statuses[1].stop)
        /\ sess[s].page.statuses[1].status = "Delayed"
        /\ BothActuals(sess[s].page.statuses[2].stop)
        /\ sess[s].page.progress.completed_stops = 1

\* C8: whenever the comparison is made, both operands are aware: the clock
\* reading is in UTC, a naive planned arrival is read as UTC, an aware one is
\* used as stored, no naive-against-aware comparison is made, and a naive
\* planned arrival gets the label of the aware one with the same wall clock at
\* offset +00:00.
C8_AwareOperands ==
    /\ \A s \in DOMAIN sess : sess[s].page.raised # "TypeError: compare"
    /\ \A e \in AllEntries :
          LET p == e.stop.planned_arrival_at
          IN  /\ e.status # "TypeError"
              /\ (e.current_time # None) <=>
                    (e.stop.actual_arrival_at = None /\ p # None)
              /\ e.current_time # None =>
                    /\ e.current_time = datetime(e.now, "UTC")
                    /\ e.planned_time.tzinfo # "None"
                    /\ e.planned_time = IF p.tzinfo = "None"
                                        THEN datetime(p.wall, "UTC") ELSE p
                    /\ p.tzinfo = "None" =>
                          e.status = get_stop_status(
                                        [e.stop EXCEPT !.planned_arrival_at =
                                            datetime(p.wall, "UTC")],
                                        e.now).status

C8_Witness ==
    \E e \in AllEntries :
        /\ e.stop.planned_arrival_at = datetime(2, "None")
        /\ e.current_time = datetime(3, "UTC")
        /\ e.planned_time = datetime(2, "UTC")
        /\ e.status = "Delayed"

\* C9 as stated: the label depends on the stop record alone among the
\* arguments of the classifier, the time being an argument and not a clock
\* read inside: two calls with the same stop record return the same label and
\* marker.
C9_SameStopSameLabel ==
    \A e \in AllEntries : \A f \in AllEntries :
        e.stop = f.stop => (e.status = f.status /\ e.emoji = f.emoji)

\* The labels the stop followed may show once label l has been shown.
After(l) ==
    CASE l = "Completed" -> {"Completed"}
      [] l = "Arrived" -> {"Arrived", "Completed"}
      [] l = "Delayed" -> {"Delayed", "Arrived", "Completed"}
      [] OTHER -> Labels

\* C10 as stated: with a clock that does not run backward, a plan that is not
\* changed once set and actual timestamps that are only added, the labels shown
\* for the stop, in the order in which they are shown, never move backward:
\* after Delayed never Scheduled or Unknown, after Arrived only Arrived or
\* Completed, after Completed only Completed.
C10_Original ==
    last # "none" => \A l \in seen : last \in After(l)

\* C10 amended: under the same conditions the label never moves backward
\* between two runs of which the first has ended before the second starts,
\* whichever sessions they belong to: a run that started after Delayed was
\* displayed shows Delayed, Arrived or Completed, after Arrived it shows Arrived
\* or Completed, after Completed it shows Completed; and no run faults.
C10_LabelNeverMovesBack ==
    \A s \in DOMAIN sess :
        /\ sess[s].page.raised = "None"
        /\ Shown(sess[s].page) # "none" =>
              \A l \in hist[s] : Shown(sess[s].page) \in After(l)

\* Delayed is not final: a run that started after the stop had been displayed
\* Delayed and then Arrived shows it Completed.
C10_Witness ==
    \E s \in DOMAIN sess :
        /\ {"Delayed", "Arrived"} \subseteq hist[s]
        /\ Shown(sess[s].page) = "Completed"

====
